---- MODULE Spec2Model ----
(***************************************************************************)
(* Best Papers in Systems Security (js/main.js): the page's filter state,  *)
(* its event handlers and the three views they render (the paper list      *)
(* grouped by year, the all-authors ranking, the first-author ranking),    *)
(* and the two show-all/show-less toggles of the rankings.                 *)
(*                                                                         *)
(* A string is a sequence of one-character strings, so that trim, split    *)
(* and localeCompare are computed, not assumed.  A paper carries an id,    *)
(* its position in data.papers: it stands for the identity of the object.  *)
(***************************************************************************)
EXTENDS Integers, Sequences, FiniteSets, TLC

\* ------------------------------------------------------------------ bounds
MaxPapers == 3
MaxAuthors == 2
MaxYear == 3

\* ------------------------------------------------------- program constants
\* Math.min() of no arguments is Infinity and Math.max() is -Infinity: a
\* number above (its negation: below) every year and every slider position.
Infinity == 1000
\* yearFrom and yearTo before the load: no number.
null == -1
INITIAL_LIMIT == 25

\* ------------------------------------------------------------- the inputs
Venues == {"CCS", "NDSS"}
\* The data-venue attributes of the venue buttons.
Buttons == {"all"} \cup Venues
Years == 1..MaxYear

\* Author names: "b a", "a b" (the surname order is not the name order)
\* and "c  a" (two blanks; the surname of "b a").
Names == { <<"b", " ", "a">>, <<"a", " ", "b">>, <<"c", " ", " ", "a">> }

SeqsUpTo(S, n) == UNION { [1..k -> S] : k \in 0..n }

AuthorLists == { [i \in DOMAIN ns |-> [name |-> ns[i]]] : ns \in SeqsUpTo(Names, MaxAuthors) }

\* The name of an author object without a name property: the value a read
\* of the property gives.  No character is "undefined", so it is none of
\* the names above, nor the empty name.
undefined == <<"undefined">>

\* Author lists led by an author with an empty name or with none, before an
\* author that has one; and the lists of one name, once and twice.
NamelessAuthorLists ==
    { << [name |-> <<>>], [name |-> <<"a", " ", "b">>] >>,
      << [name |-> undefined], [name |-> <<"b", " ", "a">>] >>,
      << [name |-> <<"a", " ", "b">>] >>,
      << [name |-> <<"a", " ", "b">>], [name |-> <<"a", " ", "b">>] >> }

\* What paper.authors is: an array, a string (some other value that is no
\* array), or undefined (the paper has no authors property).
AuthorsTypes == {"array", "string", "undefined"}

\* One name per ranking entry of a ranking longer than INITIAL_LIMIT: the
\* i-th word of three letters.
Letters == <<"a", "b", "c">>

CrowdName(i) ==
    << Letters[((i - 1) \div 9) + 1],
       Letters[(((i - 1) \div 3) % 3) + 1],
       Letters[((i - 1) % 3) + 1] >>

CrowdNames == { CrowdName(i) : i \in 1..(INITIAL_LIMIT + 1) }

\* ------------------------------------------------------------------ strings
IsSpace(c) == c = " "

RECURSIVE trimStart(_)
trimStart(s) == IF s # <<>> /\ IsSpace(Head(s)) THEN trimStart(Tail(s)) ELSE s

RECURSIVE trimEnd(_)
trimEnd(s) ==
    IF s # <<>> /\ IsSpace(s[Len(s)]) THEN trimEnd(SubSeq(s, 1, Len(s) - 1)) ELSE s

trim(s) == trimEnd(trimStart(s))

\* s.split(/\s+/): the pieces of s between its runs of blanks; a run at either
\* end leaves an empty piece there, and "" splits to [""].
RECURSIVE splitFrom(_, _, _)
splitFrom(s, cur, acc) ==
    IF s = <<>> THEN Append(acc, cur)
    ELSE IF IsSpace(Head(s)) THEN splitFrom(trimStart(s), <<>>, Append(acc, cur))
    ELSE splitFrom(Tail(s), Append(cur, Head(s)), acc)

split(s) == splitFrom(s, <<>>, <<>>)

\* getSurname taking the first piece of the name.
getSurnameFirstPiece(name) ==
    LET parts == split(trim(name))
    IN  parts[1]

\* The last piece of the trimmed name, split at its blanks.
getSurname(name) ==
    LET parts == split(trim(name))
    IN  parts[Len(parts)]

\* The collation weight of a character: blank, then the letters in order.
CollationWeight(c) ==
    CASE c = " " -> 0
      [] c = "a" -> 1
      [] c = "b" -> 2
      [] c = "c" -> 3

\* a.localeCompare(b): negative, zero or positive.
RECURSIVE localeCompare(_, _)
localeCompare(a, b) ==
    IF a = <<>> /\ b = <<>> THEN 0
    ELSE IF a = <<>> THEN -1
    ELSE IF b = <<>> THEN 1
    ELSE IF CollationWeight(Head(a)) # CollationWeight(Head(b))
         THEN CollationWeight(Head(a)) - CollationWeight(Head(b))
    ELSE localeCompare(Tail(a), Tail(b))

\* ------------------------------------------------------------------ arrays
Max(S) == CHOOSE x \in S : \A y \in S : y <= x
Min(S) == CHOOSE x \in S : \A y \in S : x <= y

\* compareYears with its operands swapped: oldest first.
compareYearsAscending(a, b) == a - b

\* The comparator of the years' sort.
compareYears(a, b) == b - a

\* The comparator of the author list's sort.
compareAuthors(a, b) ==
    IF b.count # a.count THEN b.count - a.count
    ELSE localeCompare(getSurname(a.name), getSurname(b.name))

\* The comparator of an author's papers.
comparePapers(a, b) == b.year - a.year

\* The comparator handed to a sort, named by what it sorts.
compare(by, a, b) ==
    CASE by = "years" -> compareYears(a, b)
      [] by = "authors" -> compareAuthors(a, b)
      [] by = "papers" -> comparePapers(a, b)

\* Array.prototype.sort with a comparator: stable.  Each element is put
\* after the last one already placed that the comparator does not put
\* after it.
sort(s, by) ==
    LET Insert(t, x) ==
            LET ks == { j \in 1..Len(t) : compare(by, t[j], x) <= 0 }
                k == IF ks = {} THEN 0 ELSE Max(ks)
            IN  SubSeq(t, 1, k) \o <<x>> \o SubSeq(t, k + 1, Len(t))
        sorted[i \in 0..Len(s)] ==
            IF i = 0 THEN <<>>
            ELSE LET t == sorted[i - 1]
                 IN  IF t = <<>> THEN <<s[i]>> ELSE Insert(t, s[i])
    IN  sorted[Len(s)]

\* The elements of a set of numbers in ascending order: the order in which
\* Object.keys lists integer keys.
RECURSIVE Ascending(_)
Ascending(S) == IF S = {} THEN <<>> ELSE <<Min(S)>> \o Ascending(S \ {Min(S)})

Range(s) == { s[i] : i \in DOMAIN s }

\* --------------------------------------------------------------- the data
\* data.papers with the object identity of each paper (award and url play
\* no part in the views).  authors holds the elements of paper.authors when
\* that is an array, and typeofAuthors tells whether it is.
Document(d) ==
    [i \in DOMAIN d |-> [id |-> i, venue |-> d[i].venue, year |-> d[i].year,
                         typeofAuthors |-> d[i].typeofAuthors,
                         authors |-> d[i].authors]]

\* The document of INITIAL_LIMIT + 1 papers of one year, each by one author
\* of its own, the last paper of this venue.
CrowdDocument(venue) ==
    Document([i \in 1..(INITIAL_LIMIT + 1) |->
                [venue |-> IF i > INITIAL_LIMIT THEN venue ELSE "CCS",
                 year |-> MaxYear,
                 typeofAuthors |-> "array",
                 authors |-> <<[name |-> CrowdName(i)]>>]])

\* The documents loaded.  Up to MaxPapers papers: of every venue and year
\* by one author; of one venue and year by every list of authors; of one
\* venue and year with authors that is no array or holds an author
\* without a name.  And the documents of INITIAL_LIMIT + 1 papers.
Documents ==
    { Document(d) : d \in
        SeqsUpTo([venue : Venues, year : Years, typeofAuthors : {"array"},
                  authors : {<<[name |-> <<"b", " ", "a">>]>>}], MaxPapers)
        \cup SeqsUpTo([venue : {"CCS"}, year : {MaxYear}, typeofAuthors : {"array"},
                       authors : AuthorLists], MaxPapers)
        \cup SeqsUpTo([venue : {"CCS"}, year : {MaxYear},
                       typeofAuthors : AuthorsTypes \ {"array"}, authors : {<<>>}]
                      \cup [venue : {"CCS"}, year : {MaxYear}, typeofAuthors : {"array"},
                            authors : NamelessAuthorLists], MaxPapers) }
    \cup { CrowdDocument(venue) : venue \in Venues }

\* The positions the user moves a slider to (those of them in its range).
Positions == 0..(MaxYear + 1)

\* ------------------------------------------------------------ applyFilters
\* filter with the lower year bound taken as exclusive.
filterExclusiveFrom(papers, venue, from, to) ==
    LET byVenue == IF venue # "all"
                   THEN SelectSeq(papers, LAMBDA p : p.venue = venue)
                   ELSE papers
        byFrom  == IF from # null
                   THEN SelectSeq(byVenue, LAMBDA p : p.year > from)
                   ELSE byVenue
    IN  IF to # null THEN SelectSeq(byFrom, LAMBDA p : p.year <= to) ELSE byFrom

\* The three filters of applyFilters, in its order.
filter(papers, venue, from, to) ==
    LET byVenue == IF venue # "all"
                   THEN SelectSeq(papers, LAMBDA p : p.venue = venue)
                   ELSE papers
        byFrom  == IF from # null
                   THEN SelectSeq(byVenue, LAMBDA p : p.year >= from)
                   ELSE byVenue
        byTo    == IF to # null
                   THEN SelectSeq(byFrom, LAMBDA p : p.year <= to)
                   ELSE byFrom
    IN  byTo

\* ------------------------------------------------------------ renderPapers
\* papersByYear after the forEach: each year's papers in the order pushed.
papersByYear(papers) ==
    LET step(m, p) == IF p.year \in DOMAIN m
                      THEN [m EXCEPT ![p.year] = Append(@, p)]
                      ELSE m @@ (p.year :> <<p>>)
        acc[i \in 0..Len(papers)] ==
            IF i = 0 THEN <<>>
            ELSE LET m == acc[i - 1]
                 IN  IF DOMAIN m = {} THEN papers[i].year :> <<papers[i]>>
                     ELSE step(m, papers[i])
    IN  acc[Len(papers)]

\* The container's content: no section for an empty list (the "No papers
\* found" paragraph), else one section per year, in the sorted order.
renderPapers(papers) ==
    IF Len(papers) = 0 THEN [kind |-> "none", sections |-> <<>>]
    ELSE LET byYear == papersByYear(papers)
             years  == sort(Ascending(DOMAIN byYear), "years")
         IN  [kind |-> "sections",
              sections |-> [i \in DOMAIN years |->
                              [year |-> years[i], papers |-> byYear[years[i]]]]]

\* ------------------------------------------------------- the two rankings
\* authorPapers[name].push(paper), the entry created when the name is new.
\* The object is kept as the sequence of its entries in insertion order,
\* the order of Object.entries.
credit(authorPapers, name, paper) ==
    IF \E i \in DOMAIN authorPapers : authorPapers[i].name = name
    THEN [i \in DOMAIN authorPapers |->
            IF authorPapers[i].name = name
            THEN [authorPapers[i] EXCEPT !.papers = Append(@, paper)]
            ELSE authorPapers[i]]
    ELSE Append(authorPapers, [name |-> name, papers |-> <<paper>>])

\* !paper.authors || !Array.isArray(paper.authors)
noAuthorsArray(paper) == paper.typeofAuthors # "array"

\* !name: the name is undefined or the empty string.
noName(name) == name = undefined \/ name = <<>>

\* paper.authors.forEach of renderAuthorsRanking: an author without a name
\* is passed over.
RECURSIVE creditAuthors(_, _, _)
creditAuthors(authorPapers, authors, paper) ==
    IF authors = <<>> THEN authorPapers
    ELSE LET name == Head(authors).name
         IN  creditAuthors(IF noName(name) THEN authorPapers
                           ELSE credit(authorPapers, name, paper),
                           Tail(authors), paper)

\* One paper's step of renderAuthorsRanking's forEach.
creditPaper(authorPapers, paper) ==
    IF noAuthorsArray(paper) THEN authorPapers
    ELSE creditAuthors(authorPapers, paper.authors, paper)

\* The mapping renderAuthorsRanking builds: the forEach has finished with
\* the papers before papers[i] when it comes to papers[i], which starts the
\* mapping or adds to it.
allAuthorPapers(papers) ==
    LET acc[i \in 0..Len(papers)] ==
            IF i = 0 THEN <<>>
            ELSE LET authorPapers == acc[i - 1]
                 IN  IF authorPapers = <<>> THEN creditPaper(<<>>, papers[i])
                     ELSE creditPaper(authorPapers, papers[i])
    IN  acc[Len(papers)]

\* creditFirstAuthor crediting the last author of the paper.
creditLastAuthor(authorPapers, paper) ==
    IF noAuthorsArray(paper) \/ Len(paper.authors) = 0 THEN authorPapers
    ELSE LET name == paper.authors[Len(paper.authors)].name
         IN  IF noName(name) THEN authorPapers
             ELSE credit(authorPapers, name, paper)

\* One paper's step of renderFirstAuthorsRanking's forEach.
creditFirstAuthor(authorPapers, paper) ==
    IF noAuthorsArray(paper) \/ Len(paper.authors) = 0 THEN authorPapers
    ELSE LET name == paper.authors[1].name
         IN  IF noName(name) THEN authorPapers
             ELSE credit(authorPapers, name, paper)

\* The mapping renderFirstAuthorsRanking builds, in the same way.
firstAuthorPapers(papers) ==
    LET acc[i \in 0..Len(papers)] ==
            IF i = 0 THEN <<>>
            ELSE LET authorPapers == acc[i - 1]
                 IN  IF authorPapers = <<>> THEN creditFirstAuthor(<<>>, papers[i])
                     ELSE creditFirstAuthor(authorPapers, papers[i])
    IN  acc[Len(papers)]

\* nextRank without the comparison of the counts: 1, 2, 3, ...
nextRankOrdinal(currentRank, count, previousCount) == currentRank + 1

\* One step of the rank loop: the rank of an entry with this count.
nextRank(currentRank, count, previousCount) ==
    IF count # previousCount THEN currentRank + 1 ELSE currentRank

\* From the mapping to the rendered list: Object.entries, map, sort, the
\* rank loop (previousCount starts at null, currentRank at 0), then per
\* entry its papers sorted and its place before or past INITIAL_LIMIT.
ranking(authorPapers) ==
    LET authorList ==
            sort([i \in DOMAIN authorPapers |->
                    [name |-> authorPapers[i].name,
                     papers |-> authorPapers[i].papers,
                     count |-> Len(authorPapers[i].papers)]], "authors")
        n == Len(authorList)
        previousCount(i) == IF i = 1 THEN null ELSE authorList[i - 1].count
        currentRank[i \in 0..n] ==
            IF i = 0 THEN 0
            ELSE nextRank(currentRank[i - 1], authorList[i].count, previousCount(i))
        showAll == n <= INITIAL_LIMIT
    IN  IF n = 0 THEN [kind |-> "none", entries |-> <<>>, button |-> FALSE]
        ELSE [kind |-> "list",
              entries |-> [i \in 1..n |->
                  [name |-> authorList[i].name,
                   count |-> authorList[i].count,
                   rank |-> currentRank[i],
                   papers |-> sort(authorList[i].papers, "papers"),
                   hidden |-> ~showAll /\ (i - 1) >= INITIAL_LIMIT]],
              button |-> n > INITIAL_LIMIT]

renderAuthorsRanking(papers) == ranking(allAuthorPapers(papers))

renderFirstAuthorsRanking(papers) == ranking(firstAuthorPapers(papers))

\* ------------------------------------------------------------- the sliders
\* An <input type="range"> after its min, max and value are assigned, in
\* that order: an attribute that is no finite number falls back to the
\* element's default (min 0, max 100, value halfway), and the value is
\* kept within min..max.
IsFinite(x) == x # Infinity /\ x # -Infinity

rangeInput(min, max, value) ==
    LET lo == IF IsFinite(min) THEN min ELSE 0
        hi == IF IsFinite(max) THEN max ELSE 100
        v  == IF ~IsFinite(value) THEN (IF hi < lo THEN lo ELSE lo + (hi - lo) \div 2)
              ELSE IF hi < lo \/ value < lo THEN lo
              ELSE IF value > hi THEN hi
              ELSE value
    IN  [min |-> lo, max |-> hi, value |-> v]

\* ---------------------------------------------------------------- the state
VARIABLES
    phase,             \* "init", "loaded" (handlers registered) or "failed"
    allPapers, currentVenue, yearFrom, yearTo, minYear, maxYear,
    sliderFrom, sliderTo,       \* the two range inputs
    filtered,                   \* the list last handed to the three renderers
    papersView,                 \* #papers-container
    authorsView,                \* #authors-container
    firstAuthorsView,           \* #first-authors-container
    authorsExpanded, firstAuthorsExpanded,
    authorsToggle,              \* the .author-hidden entries and the button
    firstAuthorsToggle,         \* the .first-author-hidden entries and theirs
    lastEvent                   \* the event handled last, with its input

vars == <<phase, allPapers, currentVenue, yearFrom, yearTo, minYear, maxYear,
          sliderFrom, sliderTo, filtered, papersView, authorsView,
          firstAuthorsView, authorsExpanded, firstAuthorsExpanded,
          authorsToggle, firstAuthorsToggle, lastEvent>>

Event(type, venue, value) == [type |-> type, venue |-> venue, value |-> value]

Init ==
    /\ phase = "init"
    /\ allPapers = <<>>
    /\ currentVenue = "all"
    /\ yearFrom = null
    /\ yearTo = null
    /\ minYear = 2012
    /\ maxYear = 2025
    /\ sliderFrom = rangeInput(0, 100, 50)
    /\ sliderTo = rangeInput(0, 100, 50)
    /\ filtered = <<>>
    /\ papersView = [kind |-> "initial", sections |-> <<>>]
    /\ authorsView = [kind |-> "initial", entries |-> <<>>, button |-> FALSE]
    /\ firstAuthorsView = [kind |-> "initial", entries |-> <<>>, button |-> FALSE]
    /\ authorsExpanded = FALSE
    /\ firstAuthorsExpanded = FALSE
    /\ authorsToggle = [display |-> "none", btn |-> "none", n |-> 0]
    /\ firstAuthorsToggle = [display |-> "none", btn |-> "none", n |-> 0]
    /\ lastEvent = Event("none", "all", null)

\* What a ranking's innerHTML gives the entries past INITIAL_LIMIT and the
\* button: the entries style="display:none;", the button (when there is
\* one) the text "Show all n authors".
rendered(view) ==
    [display |-> "none",
     btn |-> IF view.button THEN "Show all" ELSE "none",
     n |-> IF view.button THEN Len(view.entries) ELSE 0]

\* render with the two rankings computed from the list of the cycle before.
renderStaleRankings(papers) ==
    /\ filtered' = papers
    /\ papersView' = renderPapers(papers)
    /\ authorsView' = renderAuthorsRanking(filtered)
    /\ firstAuthorsView' = renderFirstAuthorsRanking(filtered)
    /\ authorsToggle' = rendered(authorsView')
    /\ firstAuthorsToggle' = rendered(firstAuthorsView')

\* The three renderers on one list.
render(papers) ==
    /\ filtered' = papers
    /\ papersView' = renderPapers(papers)
    /\ authorsView' = renderAuthorsRanking(papers)
    /\ firstAuthorsView' = renderFirstAuthorsRanking(papers)
    /\ authorsToggle' = rendered(authorsView')
    /\ firstAuthorsToggle' = rendered(firstAuthorsView')

\* applyFilters narrowing the list rendered last instead of allPapers.
applyFiltersOfRendered == render(filter(filtered, currentVenue', yearFrom', yearTo'))

\* applyFilters, run by a handler once it has set the filter state.
applyFilters == render(filter(allPapers, currentVenue', yearFrom', yearTo'))

\* Math.min(...years) and Math.max(...years).
mathMin(years) == IF years = <<>> THEN Infinity ELSE Min(Range(years))
mathMax(years) == IF years = <<>> THEN -Infinity ELSE Max(Range(years))

\* loadPapers, the fetch and the parse succeeding with this document; it
\* runs initYearSlider, the three renderers and setupFilters.
loadPapers(papers) ==
    LET years == [i \in DOMAIN papers |-> papers[i].year]
    IN  /\ phase = "init"
        /\ allPapers' = papers
        /\ minYear' = mathMin(years)
        /\ maxYear' = mathMax(years)
        /\ sliderFrom' = rangeInput(minYear', maxYear', minYear')
        /\ sliderTo' = rangeInput(minYear', maxYear', maxYear')
        /\ yearFrom' = minYear'
        /\ yearTo' = maxYear'
        /\ render(allPapers')
        /\ phase' = "loaded"
        /\ lastEvent' = Event("load", "all", null)
        /\ UNCHANGED <<currentVenue, authorsExpanded, firstAuthorsExpanded>>

\* loadError with initYearSlider run before the fetch: the year bounds set.
loadErrorSlidersInitialised ==
    /\ phase = "init"
    /\ phase' = "failed"
    /\ papersView' = [kind |-> "error", sections |-> <<>>]
    /\ sliderFrom' = rangeInput(minYear, maxYear, minYear)
    /\ sliderTo' = rangeInput(minYear, maxYear, maxYear)
    /\ yearFrom' = minYear
    /\ yearTo' = maxYear
    /\ lastEvent' = Event("error", "all", null)
    /\ UNCHANGED <<allPapers, currentVenue, minYear, maxYear, filtered,
                   authorsView, firstAuthorsView, authorsExpanded,
                   firstAuthorsExpanded, authorsToggle, firstAuthorsToggle>>

\* loadPapers, the fetch or the parse failing: the catch clause.
loadError ==
    /\ phase = "init"
    /\ phase' = "failed"
    /\ papersView' = [kind |-> "error", sections |-> <<>>]
    /\ lastEvent' = Event("error", "all", null)
    /\ UNCHANGED <<allPapers, currentVenue, yearFrom, yearTo, minYear, maxYear,
                   sliderFrom, sliderTo, filtered, authorsView, firstAuthorsView,
                   authorsExpanded, firstAuthorsExpanded, authorsToggle,
                   firstAuthorsToggle>>

\* venueClick with the collection itself sorted by year, newest first.
venueClickSortingCollection(venue) ==
    /\ phase = "loaded"
    /\ currentVenue' = venue
    /\ allPapers' = sort(allPapers, "papers")
    /\ UNCHANGED <<yearFrom, yearTo, minYear, maxYear, sliderFrom, sliderTo>>
    /\ render(filter(allPapers', currentVenue', yearFrom', yearTo'))
    /\ lastEvent' = Event("venue", venue, null)
    /\ UNCHANGED <<phase, authorsExpanded, firstAuthorsExpanded>>

\* The click handler of a venue button.
venueClick(venue) ==
    /\ phase = "loaded"
    /\ currentVenue' = venue
    /\ UNCHANGED <<allPapers, yearFrom, yearTo, minYear, maxYear, sliderFrom, sliderTo>>
    /\ applyFilters
    /\ lastEvent' = Event("venue", venue, null)
    /\ UNCHANGED <<phase, authorsExpanded, firstAuthorsExpanded>>

\* The input handler of the lower slider, the user having moved it to value.
sliderFromInput(value) ==
    LET val == IF value > sliderTo.value THEN sliderTo.value ELSE value
    IN  /\ phase = "loaded"
        /\ value \in sliderFrom.min..sliderFrom.max
        /\ value # sliderFrom.value
        /\ sliderFrom' = [sliderFrom EXCEPT !.value = val]
        /\ yearFrom' = val
        /\ UNCHANGED <<allPapers, currentVenue, yearTo, minYear, maxYear, sliderTo>>
        /\ applyFilters
        /\ lastEvent' = Event("from", currentVenue, value)
        /\ UNCHANGED <<phase, authorsExpanded, firstAuthorsExpanded>>

\* The input handler of the upper slider.
sliderToInput(value) ==
    LET val == IF value < sliderFrom.value THEN sliderFrom.value ELSE value
    IN  /\ phase = "loaded"
        /\ value \in sliderTo.min..sliderTo.max
        /\ value # sliderTo.value
        /\ sliderTo' = [sliderTo EXCEPT !.value = val]
        /\ yearTo' = val
        /\ UNCHANGED <<allPapers, currentVenue, yearFrom, minYear, maxYear, sliderFrom>>
        /\ applyFilters
        /\ lastEvent' = Event("to", currentVenue, value)
        /\ UNCHANGED <<phase, authorsExpanded, firstAuthorsExpanded>>

\* resetClick leaving the upper bound and its slider as they are.
resetClickLowerOnly ==
    /\ phase = "loaded"
    /\ sliderFrom' = rangeInput(sliderFrom.min, sliderFrom.max, minYear)
    /\ yearFrom' = minYear
    /\ UNCHANGED <<allPapers, currentVenue, minYear, maxYear, sliderTo, yearTo>>
    /\ applyFilters
    /\ lastEvent' = Event("reset", currentVenue, null)
    /\ UNCHANGED <<phase, authorsExpanded, firstAuthorsExpanded>>

\* The click handler of the reset button.
resetClick ==
    /\ phase = "loaded"
    /\ sliderFrom' = rangeInput(sliderFrom.min, sliderFrom.max, minYear)
    /\ sliderTo' = rangeInput(sliderTo.min, sliderTo.max, maxYear)
    /\ yearFrom' = minYear
    /\ yearTo' = maxYear
    /\ UNCHANGED <<allPapers, currentVenue, minYear, maxYear>>
    /\ applyFilters
    /\ lastEvent' = Event("reset", currentVenue, null)
    /\ UNCHANGED <<phase, authorsExpanded, firstAuthorsExpanded>>

\* What a toggle leaves of a ranking's hidden entries and button, the flag
\* flipped to expanded: every hidden entry's style.display and the
\* button's textContent.
toggled(view, expanded) ==
    LET hiddenAuthors == { i \in DOMAIN view.entries : view.entries[i].hidden }
    IN  [display |-> IF expanded THEN "" ELSE "none",
         btn |-> IF expanded THEN "Show less" ELSE "Show all",
         n |-> IF expanded THEN 0 ELSE Cardinality(hiddenAuthors) + 25]

\* toggleAuthorsList, the onclick of the all-authors ranking's button.
toggleAuthorsList ==
    /\ phase = "loaded"
    /\ authorsView.button
    /\ authorsExpanded' = ~authorsExpanded
    /\ authorsToggle' = toggled(authorsView, authorsExpanded')
    /\ lastEvent' = Event("toggleAuthors", currentVenue, null)
    /\ UNCHANGED <<phase, allPapers, currentVenue, yearFrom, yearTo, minYear,
                   maxYear, sliderFrom, sliderTo, filtered, papersView,
                   authorsView, firstAuthorsView, firstAuthorsExpanded,
                   firstAuthorsToggle>>

\* toggleFirstAuthorsList, the onclick of the first-author ranking's button.
toggleFirstAuthorsList ==
    /\ phase = "loaded"
    /\ firstAuthorsView.button
    /\ firstAuthorsExpanded' = ~firstAuthorsExpanded
    /\ firstAuthorsToggle' = toggled(firstAuthorsView, firstAuthorsExpanded')
    /\ lastEvent' = Event("toggleFirstAuthors", currentVenue, null)
    /\ UNCHANGED <<phase, allPapers, currentVenue, yearFrom, yearTo, minYear,
                   maxYear, sliderFrom, sliderTo, filtered, papersView,
                   authorsView, firstAuthorsView, authorsExpanded,
                   authorsToggle>>

Next ==
    \/ \E papers \in Documents : loadPapers(papers)
    \/ loadError
    \/ \E venue \in Buttons : venueClick(venue)
    \/ \E value \in Positions : sliderFromInput(value)
    \/ \E value \in Positions : sliderToInput(value)
    \/ resetClick
    \/ toggleAuthorsList
    \/ toggleFirstAuthorsList

Spec == Init /\ [][Next]_vars

\* ============================================================ the properties
\* What the properties speak of, stated without the operators above.

\* The last whitespace-separated token of a name: from after the last blank
\* that precedes its last non-blank character, up to that character.
LastToken(name) ==
    LET solid == { i \in DOMAIN name : name[i] # " " }
    IN  IF solid = {} THEN <<>>
        ELSE LET e == Max(solid)
                 blanks == { i \in 1..e : name[i] = " " }
                 b == IF blanks = {} THEN 0 ELSE Max(blanks)
             IN  SubSeq(name, b + 1, e)

\* The positions in papers of the papers whose author list holds name.
PapersNaming(papers, name) ==
    { i \in DOMAIN papers :
        \E k \in DOMAIN papers[i].authors : papers[i].authors[k].name = name }

\* The positions in papers of the papers whose first author is name.
PapersLedBy(papers, name) ==
    { i \in DOMAIN papers :
        Len(papers[i].authors) > 0 /\ papers[i].authors[1].name = name }

\* The names the authors of the loaded documents have.
AuthorNames == Names \cup CrowdNames

EntriesOf(view, name) ==
    { i \in DOMAIN view.entries : view.entries[i].name = name }

\* -------------------------------------------------------------------- C1
\* result is exactly the subsequence of allPapers of the papers that pass
\* venue and from <= year <= to: each of its papers is a paper of allPapers
\* that passes, every paper of allPapers that passes is in it, and its
\* papers are in strictly ascending document position (none twice, order
\* kept).
ExactSubsequence(result, venue, from, to) ==
    LET Passes(p) == /\ venue = "all" \/ p.venue = venue
                     /\ from <= p.year
                     /\ p.year <= to
    IN  /\ \A i \in DOMAIN result :
              /\ result[i].id \in DOMAIN allPapers
              /\ allPapers[result[i].id] = result[i]
              /\ Passes(result[i])
        /\ \A j \in DOMAIN allPapers :
              Passes(allPapers[j]) => \E i \in DOMAIN result : result[i] = allPapers[j]
        /\ \A i, k \in DOMAIN result : i < k => result[i].id < result[k].id

\* C1: the list applyFilters hands to the renderers is exactly the
\* subsequence of allPapers that passes the current venue selector and year
\* bounds; and so is the filter's result on the loaded collection for every
\* venue selector and every pair of year bounds, inverted pairs included.
C1_FilterIsExactSubsequence ==
    phase = "loaded" =>
        /\ ExactSubsequence(filtered, currentVenue, yearFrom, yearTo)
        /\ \A venue \in Buttons : \A from, to \in Positions :
              ExactSubsequence(filter(allPapers, venue, from, to), venue, from, to)

\* Three papers loaded, the venue and the upper bound both narrowed, the
\* first and the third paper kept and the second dropped.
C1_Witness ==
    /\ phase = "loaded"
    /\ currentVenue # "all"
    /\ yearTo < maxYear
    /\ Len(allPapers) = 3
    /\ Len(filtered) = 2
    /\ filtered[1].id = 1
    /\ filtered[2].id = 3

\* -------------------------------------------------------------------- C2
\* C2: once the papers are loaded, yearFrom <= yearTo and both bounds lie
\* within [minYear, maxYear], whatever events follow.
C2_RangeWithinBounds ==
    phase = "loaded" =>
        /\ yearFrom <= yearTo
        /\ minYear <= yearFrom
        /\ yearTo <= maxYear

\* -------------------------------------------------------------------- C3
\* C3: a move of the lower slider to a value above the current upper bound
\* sets yearFrom to that bound, any other move of it sets yearFrom to the
\* value, and yearTo is unchanged; symmetrically for the upper slider; the
\* range is not inverted afterwards.
C3_SliderMoveIsClamped ==
    [][ /\ lastEvent'.type = "from" =>
              /\ yearFrom' = IF lastEvent'.value > yearTo THEN yearTo
                             ELSE lastEvent'.value
              /\ yearTo' = yearTo
              /\ yearFrom' <= yearTo'
        /\ lastEvent'.type = "to" =>
              /\ yearTo' = IF lastEvent'.value < yearFrom THEN yearFrom
                           ELSE lastEvent'.value
              /\ yearFrom' = yearFrom
              /\ yearFrom' <= yearTo' ]_vars

\* -------------------------------------------------------------------- C4
\* C4: a click on reset sets yearFrom to minYear and yearTo to maxYear,
\* leaves the venue selector, minYear and maxYear as they were, and renders
\* the papers of the selected venue of every year of the collection.
C4_ResetRestoresFullRange ==
    [][ lastEvent'.type = "reset" =>
          /\ yearFrom' = minYear
          /\ yearTo' = maxYear
          /\ currentVenue' = currentVenue
          /\ <<minYear', maxYear'>> = <<minYear, maxYear>>
          /\ filtered' = SelectSeq(allPapers,
                LAMBDA p : currentVenue = "all" \/ p.venue = currentVenue)
          /\ papersView' = renderPapers(filtered')
          /\ authorsView' = renderAuthorsRanking(filtered')
          /\ firstAuthorsView' = renderFirstAuthorsRanking(filtered') ]_vars

\* Reset has run with a venue selected, over a collection of several years
\* of which the venue has papers.
C4_Witness ==
    /\ lastEvent.type = "reset"
    /\ currentVenue # "all"
    /\ minYear < maxYear
    /\ yearFrom = minYear /\ yearTo = maxYear
    /\ Len(filtered) >= 2
    /\ Len(filtered) < Len(allPapers)

\* -------------------------------------------------------------------- C5
\* C5: in the all-authors ranking every name has an entry iff some rendered
\* paper lists it, and the entry's count is the number of rendered papers
\* whose author list holds the name.
C5_CountIsPapersNaming ==
    phase = "loaded" =>
        \A name \in AuthorNames :
            LET n == Cardinality(PapersNaming(filtered, name))
                es == EntriesOf(authorsView, name)
            IN  /\ es # {} <=> n >= 1
                /\ \A i \in es : authorsView.entries[i].count = n

\* -------------------------------------------------------------------- C6
\* C6: in the first-author ranking a name has an entry iff it leads some
\* rendered paper; the entry is one, its count is the number of rendered
\* papers the name leads and its papers are those papers; so a paper without
\* authors, and an author past index 0, adds to no count.
C6_FirstAuthorOnly ==
    phase = "loaded" =>
        \A name \in AuthorNames :
            LET led == PapersLedBy(filtered, name)
                es == EntriesOf(firstAuthorsView, name)
            IN  /\ Cardinality(es) = IF led = {} THEN 0 ELSE 1
                /\ \A i \in es :
                      LET e == firstAuthorsView.entries[i]
                      IN  /\ e.count = Cardinality(led)
                          /\ Len(e.papers) = e.count
                          /\ Range(e.papers) = { filtered[j] : j \in led }

\* A paper without authors and a paper with a second author of another name
\* are rendered, and the second author has no entry.
C6_Witness ==
    /\ phase = "loaded"
    /\ \E j \in DOMAIN filtered : Len(filtered[j].authors) = 0
    /\ \E j \in DOMAIN filtered :
          /\ Len(filtered[j].authors) = 2
          /\ EntriesOf(firstAuthorsView, filtered[j].authors[2].name) = {}
    /\ \E i \in DOMAIN firstAuthorsView.entries : firstAuthorsView.entries[i].count = 2

\* -------------------------------------------------------------------- C7
\* The ranks of a ranking are dense.
DenseRanks(view) ==
    LET es == view.entries
        counts == { es[i].count : i \in DOMAIN es }
    IN  /\ es # <<>> => es[1].rank = 1
        /\ \A i \in 2..Len(es) :
              es[i].rank = IF es[i].count = es[i - 1].count
                           THEN es[i - 1].rank ELSE es[i - 1].rank + 1
        /\ \A i, j \in DOMAIN es : es[i].rank = es[j].rank <=> es[i].count = es[j].count
        /\ { es[i].rank : i \in DOMAIN es } = 1..Cardinality(counts)

\* C7: in both rankings the first entry has rank 1, each later entry the rank
\* of its predecessor when their counts are equal and one more otherwise;
\* two entries share a rank iff they share a count, and the ranks are 1..k
\* for k distinct counts.
C7_RanksAreDense ==
    phase = "loaded" => DenseRanks(authorsView) /\ DenseRanks(firstAuthorsView)

\* A tie at the top, then a smaller count: ranks 1, 1, 2.
C7_Witness ==
    /\ phase = "loaded"
    /\ Len(authorsView.entries) = 3
    /\ authorsView.entries[1].rank = 1
    /\ authorsView.entries[2].rank = 1
    /\ authorsView.entries[3].rank = 2
    /\ Len(firstAuthorsView.entries) >= 2

\* -------------------------------------------------------------------- C8
\* The entries of a ranking are in order, and they are those of names.
OrderedAndComplete(view, names) ==
    LET es == view.entries
    IN  /\ \A i \in 1..(Len(es) - 1) :
              \/ es[i].count > es[i + 1].count
              \/ /\ es[i].count = es[i + 1].count
                 /\ localeCompare(LastToken(es[i].name), LastToken(es[i + 1].name)) <= 0
        /\ { es[i].name : i \in DOMAIN es } = names
        /\ Len(es) = Cardinality(names)

\* C8: both rankings are ordered by count descending and, among equal
\* counts, by ascending comparison of the last whitespace-separated token of
\* the name; each credited name has its entry, once.
C8_OrderedByCountThenSurname ==
    phase = "loaded" =>
        /\ OrderedAndComplete(authorsView,
              { name \in AuthorNames : PapersNaming(filtered, name) # {} })
        /\ OrderedAndComplete(firstAuthorsView,
              { name \in AuthorNames : PapersLedBy(filtered, name) # {} })

\* "b a" stands right before "a b" with the same count, and an entry of a
\* smaller count follows.
C8_Witness ==
    /\ phase = "loaded"
    /\ Len(authorsView.entries) = 3
    /\ authorsView.entries[1].name = <<"b", " ", "a">>
    /\ authorsView.entries[2].name = <<"a", " ", "b">>
    /\ authorsView.entries[1].count = authorsView.entries[2].count
    /\ authorsView.entries[3].count < authorsView.entries[2].count

\* -------------------------------------------------------------------- C9
\* C9: the three views are a function of the loaded collection and the
\* current venue, yearFrom and yearTo alone: whatever events came before,
\* they are what one cycle over the collection gives for that filter state.
C9_ViewsDependOnFilterStateOnly ==
    phase = "loaded" =>
        LET papers == filter(allPapers, currentVenue, yearFrom, yearTo)
        IN  /\ papersView = renderPapers(papers)
            /\ authorsView = renderAuthorsRanking(papers)
            /\ firstAuthorsView = renderFirstAuthorsRanking(papers)

\* The filter state of the load has come back, by a reset, over a
\* collection of several papers, venues and years.
C9_Witness ==
    /\ lastEvent.type = "reset"
    /\ currentVenue = "all"
    /\ yearFrom = minYear /\ yearTo = maxYear
    /\ minYear < maxYear
    /\ Len(allPapers) = 3
    /\ \E i, j \in DOMAIN allPapers : allPapers[i].venue # allPapers[j].venue

\* ------------------------------------------------------------------- C10
\* C10: the sections of the paper list are in strictly descending year
\* order; every rendered paper is in the section of its year, once, and in
\* no other; a section holds rendered papers only, in their order in the
\* filtered list.
C10_GroupedByYearNewestFirst ==
    phase = "loaded" =>
        LET ss == papersView.sections
        IN  /\ \A i \in 1..(Len(ss) - 1) : ss[i].year > ss[i + 1].year
            /\ \A j \in DOMAIN filtered :
                  \E i \in DOMAIN ss :
                      /\ ss[i].year = filtered[j].year
                      /\ Cardinality({ k \in DOMAIN ss[i].papers :
                                         ss[i].papers[k] = filtered[j] }) = 1
                      /\ \A h \in DOMAIN ss : h # i => filtered[j] \notin Range(ss[h].papers)
            /\ \A i \in DOMAIN ss :
                  /\ ss[i].papers # <<>>
                  /\ \A k \in DOMAIN ss[i].papers :
                        \E j \in DOMAIN filtered : filtered[j] = ss[i].papers[k]
                  /\ \A k, m \in DOMAIN ss[i].papers :
                        k < m => ss[i].papers[k].id < ss[i].papers[m].id

\* Two sections, the older year loaded first, and two papers in one of them.
C10_Witness ==
    /\ phase = "loaded"
    /\ Len(papersView.sections) = 2
    /\ Len(filtered) = 3
    /\ filtered[1].year < filtered[3].year
    /\ Len(papersView.sections[1].papers) = 2

\* ------------------------------------------------------------------- C11
\* A paper whose authors is no array, and an author whose name is missing
\* or empty.
WithoutAuthorsArray(paper) == paper.typeofAuthors \in {"string", "undefined"}

WithoutName(author) == author.name \in {<<>>, undefined}

\* No entry of the ranking has the name of an author without one, nor a
\* paper whose authors is no array.
NothingFromSkipped(view) ==
    \A i \in DOMAIN view.entries :
        /\ view.entries[i].name \notin {<<>>, undefined}
        /\ \A k \in DOMAIN view.entries[i].papers :
              ~WithoutAuthorsArray(view.entries[i].papers[k])

\* C11: when the rendered papers hold a paper whose authors is missing or no
\* array, or an author whose name is missing or empty, neither ranking has
\* an entry from it, and every name has in each ranking its entry with its
\* correct count: the number of rendered papers that list it (all authors),
\* that it leads (first authors).
C11_MalformedSkippedOthersCounted ==
    ( /\ phase = "loaded"
      /\ \E j \in DOMAIN filtered :
            \/ WithoutAuthorsArray(filtered[j])
            \/ \E k \in DOMAIN filtered[j].authors : WithoutName(filtered[j].authors[k]) )
    => /\ NothingFromSkipped(authorsView)
       /\ NothingFromSkipped(firstAuthorsView)
       /\ \A name \in AuthorNames :
             LET naming == PapersNaming(filtered, name)
                 led == PapersLedBy(filtered, name)
                 es == EntriesOf(authorsView, name)
                 fs == EntriesOf(firstAuthorsView, name)
             IN  /\ Cardinality(es) = IF naming = {} THEN 0 ELSE 1
                 /\ \A i \in es : authorsView.entries[i].count = Cardinality(naming)
                 /\ Cardinality(fs) = IF led = {} THEN 0 ELSE 1
                 /\ \A i \in fs : firstAuthorsView.entries[i].count = Cardinality(led)

\* ------------------------------------------------------------------- C12
\* C12: a step that ends in the failed load leaves the error message as the
\* papers container's whole content, no paper list and no ranking rendered,
\* no paper held, and the filter state at its initial values (venue "all",
\* both year bounds null); and no step follows the failed load: no retry,
\* no handler.
C12_LoadFailureShowsOnlyTheMessage ==
    [][ /\ phase' = "failed" =>
              /\ papersView' = [kind |-> "error", sections |-> <<>>]
              /\ authorsView'.kind = "initial" /\ authorsView'.entries = <<>>
              /\ firstAuthorsView'.kind = "initial" /\ firstAuthorsView'.entries = <<>>
              /\ allPapers' = <<>> /\ filtered' = <<>>
              /\ currentVenue' = "all"
              /\ yearFrom' = null /\ yearTo' = null
        /\ phase = "failed" => UNCHANGED vars ]_vars

\* The load has failed and the message is shown.
C12_Witness ==
    /\ phase = "failed"
    /\ lastEvent.type = "error"
    /\ papersView.kind = "error"
    /\ yearFrom = null

\* ------------------------------------------------------------------- C13
\* The three views are those of one list, the filter of the loaded
\* collection under the current filter state.
CycleComplete ==
    /\ filtered = filter(allPapers, currentVenue, yearFrom, yearTo)
    /\ papersView = renderPapers(filtered)
    /\ authorsView = renderAuthorsRanking(filtered)
    /\ firstAuthorsView = renderFirstAuthorsRanking(filtered)
    /\ UNION { Range(papersView.sections[i].papers) : i \in DOMAIN papersView.sections }
         = Range(filtered)
    /\ \A i \in DOMAIN authorsView.entries :
          Range(authorsView.entries[i].papers) \subseteq Range(filtered)
    /\ \A i \in DOMAIN firstAuthorsView.entries :
          Range(firstAuthorsView.entries[i].papers) \subseteq Range(filtered)

\* C13: in the state a venue click, a lower or upper slider input or a
\* reset leaves, the cycle is complete: the paper list, the all-authors
\* ranking and the first-author ranking are all rendered from the one list
\* that is the filter of the collection under the filter state the handler
\* has set.
C13_EveryEventCompletesTheCycle ==
    lastEvent.type \in {"venue", "from", "to", "reset"} => CycleComplete

\* The upper slider has been lowered: part of the collection is rendered,
\* in the paper list and in both rankings.
C13_Witness ==
    /\ lastEvent.type = "to"
    /\ yearTo < maxYear
    /\ Len(filtered) >= 1
    /\ Len(filtered) < Len(allPapers)
    /\ papersView.kind = "sections"
    /\ authorsView.kind = "list"
    /\ firstAuthorsView.kind = "list"

\* ------------------------------------------------------------------- C14
\* C14: once loaded, no step changes allPapers: it holds the same papers in
\* the document's order, each with its fields, also after a ranking has
\* sorted an author's papers by year.
C14_CollectionNeverMutated ==
    [][ phase = "loaded" =>
          /\ allPapers' = allPapers
          /\ \A i \in DOMAIN allPapers' : allPapers'[i].id = i ]_vars

\* After a venue click the ranking lists an author's papers in another
\* order than the document's: the newer paper, loaded later, stands first.
C14_Witness ==
    /\ lastEvent.type = "venue"
    /\ \E i \in DOMAIN authorsView.entries :
          LET papers == authorsView.entries[i].papers
          IN  /\ Len(papers) >= 2
              /\ papers[1].id > papers[2].id
              /\ papers[1].year > papers[2].year
    /\ \A i \in DOMAIN allPapers : allPapers[i].id = i

\* ------------------------------------------------------------------- C15
\* C15: in a ranking of more than INITIAL_LIMIT entries (it has the
\* button), whatever filter changes and clicks on the button came before,
\* the entries past INITIAL_LIMIT are displayed iff the ranking's expansion
\* flag is true.
C15_HiddenDisplayedIffExpanded ==
    phase = "loaded" =>
        /\ authorsView.button =>
              (authorsToggle.display = "" <=> authorsExpanded)
        /\ firstAuthorsView.button =>
              (firstAuthorsToggle.display = "" <=> firstAuthorsExpanded)

====
